---- MODULE Spec2Model ----
(***************************************************************************)
(* Model of run.py: main() provisions the gradle working copy and calls    *)
(* build("v6.1.0"); build() loads the patch configuration, restores and    *)
(* checks out the working copy, applies the patches, runs the commands and *)
(* copies the artifact.  patch_env() is modelled as a pure function and    *)
(* exercised under its own specification EnvSpec.                          *)
(***************************************************************************)
EXTENDS Integers, Sequences, FiniteSets, TLC

VARIABLES
    pc,            \* position of the process in main()/build()
    runs,          \* number of invocations of the program so far
    gradleDir,     \* os.path.isdir("gradle")
    outputFile,    \* os.path.join("gradle", config["output"]) exists
    distDir,       \* os.path.isdir("distributions")
    distributions, \* names of the files in distributions/
    patchDirs,     \* versions that have a readable ./patches/<v>/patch.yml
    config,        \* the content of ./patches/v6.1.0/patch.yml
    i,             \* position in config["patches"]
    j,             \* position in config["cmds"]
    result,        \* the local variable `result` of build()
    ret,           \* the value returned by build()
    exc,           \* the exception that ended the process, if any
    exitCode,      \* the exit code raised by SystemExit(main())
    log,           \* subprocesses/copies performed by build() in this run
    built,         \* versions build() was called with in this run
    cloneInvoked,  \* git clone was invoked in this run
    clones,        \* successful clones over all runs
    gradleAtStart, \* gradleDir when this run started
    outputAtStart, \* outputFile when this run started
    distAtStart,   \* distributions when this run started
    environ,       \* os.environ
    patch,         \* the argument of patch_env, as its items() in order
    copied_env,    \* the value returned by patch_env
    called         \* patch_env has been called

vars == <<pc, runs, gradleDir, outputFile, distDir, distributions, patchDirs,
          config, i, j, result, ret, exc, exitCode, log, built, cloneInvoked,
          clones, gradleAtStart, outputAtStart, distAtStart,
          environ, patch, copied_env, called>>

envVars == <<environ, patch, copied_env, called>>

\* ---------------------------------------------------------------- bounds
MaxPatches == 2
MaxCmds == 2
MaxCmdLen == 2
MaxExitCode == 1
MaxRuns == 2

\* ---------------------------------------------------------------- values
Unbound == <<>>
Some(x) == <<x>>

ExitCodes == 0..MaxExitCode
PatchNames == {"a.patch", "b.patch"}
Chars == {" ", "x"}
VersionOrder == <<"v6.1.0", "v6.2.0">>
Versions == {VersionOrder[k] : k \in 1..Len(VersionOrder)}
OutputPath == <<"subprojects", "distributions", "gradle-6.1-bin.zip">>

SeqsUpTo(S, n) == UNION {[1..m -> S] : m \in 0..n}

CmdLines == SeqsUpTo(Chars, MaxCmdLen)

Configs ==
    [tag : {"v6.1.0"},
     patches : SeqsUpTo(PatchNames, MaxPatches),
     cmds : SeqsUpTo(CmdLines, MaxCmds),
     output : {OutputPath}]

\* ---------------------------------------------------------------- helpers
RECURSIVE SplitAcc(_, _, _)
SplitAcc(s, cur, acc) ==
    IF s = <<>>
    THEN IF cur = <<>> THEN acc ELSE Append(acc, cur)
    ELSE IF Head(s) = " "
         THEN SplitAcc(Tail(s), <<>>, IF cur = <<>> THEN acc ELSE Append(acc, cur))
         ELSE SplitAcc(Tail(s), Append(cur, Head(s)), acc)

\* cmd.strip().split()
Split(cmd) == SplitAcc(cmd, <<>>, <<>>)

\* os.path.basename(config["output"])
Basename(path) == IF path = <<>> THEN "" ELSE path[Len(path)]

\* the version main() builds
BuildVersion == "v6.1.0"

NeedsCloneAlways(isdir) == TRUE
\* main(): if not os.path.isdir("gradle")
NeedsClone(isdir) == ~isdir

CheckRaisesNever(rc) == FALSE
\* subprocess.run(..., check=True) raises CalledProcessError
CheckRaises(rc) == rc # 0

ApplyFailedNever(rc) == FALSE
\* build(): if result.returncode != 0 after git apply
ApplyFailed(rc) == rc # 0

CmdFailedNever(rc) == FALSE
\* build(): if result.returncode != 0 after a command
CmdFailed(rc) == rc # 0

PatchArgReversed(cfg, k) == cfg.patches[Len(cfg.patches) - k + 1]
\* the patch the k-th iteration of the loop applies
PatchArg(cfg, k) == cfg.patches[k]

MainResultDropped(r) == Some(0)
\* main(): return build("v6.1.0")
MainResult(r) == r

Entry(op, idx, arg, rc) == [op |-> op, idx |-> idx, arg |-> arg, rc |-> rc]

\* ---------------------------------------------------------------- patch_env
None == <<>>
EnvVars == {"X", "Y"}
EnvValues == {"a", "b"}
Envs == UNION {[D -> EnvValues] : D \in SUBSET EnvVars}
PatchValues == {None} \cup {Some(v) : v \in EnvValues}
PatchItems ==
    {s \in SeqsUpTo(EnvVars \X PatchValues, Cardinality(EnvVars)) :
        \A a, b \in 1..Len(s) : a # b => s[a][1] # s[b][1]}

\* copied_env.pop(var, None)
Pop(env, var) == [v \in DOMAIN env \ {var} |-> env[v]]

\* copied_env[var] = value
SetItem(env, var, value) ==
    [v \in DOMAIN env \cup {var} |-> IF v = var THEN value ELSE env[v]]

RECURSIVE ApplyItems(_, _)
ApplyItems(env, items) ==
    IF items = <<>>
    THEN env
    ELSE LET var == Head(items)[1]
             value == Head(items)[2]
         IN ApplyItems(IF value = None
                       THEN Pop(env, var)
                       ELSE SetItem(env, var, value[1]),
                       Tail(items))

patch_env_in_place(env, items) ==
    [environ |-> ApplyItems(env, items), copied_env |-> ApplyItems(env, items)]
\* patch_env: the ambient environment after the call and the returned mapping
patch_env(env, items) ==
    [environ |-> env, copied_env |-> ApplyItems(env, items)]

\* ---------------------------------------------------------------- Init
NoEnv == [v \in {} |-> "a"]

RunInit ==
    /\ pc = "start"
    /\ i = 1
    /\ j = 1
    /\ result = Unbound
    /\ ret = Unbound
    /\ exc = "none"
    /\ exitCode = Unbound
    /\ log = <<>>
    /\ built = <<>>
    /\ cloneInvoked = FALSE

Init ==
    /\ RunInit
    /\ runs = 1
    /\ gradleDir \in BOOLEAN
    /\ outputFile \in (IF gradleDir THEN BOOLEAN ELSE {FALSE})
    /\ distDir \in BOOLEAN
    /\ distributions \in (IF distDir THEN SUBSET {Basename(OutputPath)} ELSE {{}})
    /\ patchDirs \in SUBSET Versions
    /\ config \in Configs
    /\ clones = 0
    /\ gradleAtStart = gradleDir
    /\ outputAtStart = outputFile
    /\ distAtStart = distributions
    /\ environ = NoEnv
    /\ patch = <<>>
    /\ copied_env = NoEnv
    /\ called = FALSE

fsVars == <<gradleDir, outputFile, distDir, distributions>>
startVars == <<gradleAtStart, outputAtStart, distAtStart>>
inputVars == <<patchDirs, config, runs>>
loopVars == <<i, j, result>>
endVars == <<ret, exc, exitCode>>

Raise(e) ==
    /\ pc' = "aborted"
    /\ exc' = e
    /\ UNCHANGED <<ret, exitCode>>

Return(r) ==
    /\ pc' = "build_returned"
    /\ ret' = Some(r)
    /\ UNCHANGED <<exc, exitCode>>

Goto(l) ==
    /\ pc' = l
    /\ UNCHANGED endVars

\* ---------------------------------------------------------------- main
\* os.makedirs("distributions", exist_ok=True); if not os.path.isdir("gradle")
MainStart ==
    /\ pc = "start"
    /\ distDir' = TRUE
    /\ IF NeedsClone(gradleDir) THEN Goto("clone") ELSE Goto("load")
    /\ UNCHANGED <<gradleDir, outputFile, distributions, log, built,
                   cloneInvoked, clones>>
    /\ UNCHANGED <<startVars, inputVars, loopVars, envVars>>

\* git clone --quiet --filter=blob:none https://github.com/gradle/gradle
Clone ==
    /\ pc = "clone"
    /\ cloneInvoked' = TRUE
    /\ \E rc \in ExitCodes :
        IF rc = 0
        THEN /\ gradleDir' = TRUE
             /\ outputFile' = FALSE
             /\ clones' = clones + 1
        ELSE /\ gradleDir' \in {gradleDir, TRUE}
             /\ outputFile' = outputFile
             /\ clones' = clones
    /\ Goto("load")
    /\ UNCHANGED <<distDir, distributions, log, built>>
    /\ UNCHANGED <<startVars, inputVars, loopVars, envVars>>

\* build(version): open(patch_config_file); yaml.load(f)
LoadConfig ==
    /\ pc = "load"
    /\ built' = Append(built, BuildVersion)
    /\ IF BuildVersion \in patchDirs
       THEN Goto("restore")
       ELSE Raise("FileNotFoundError")
    /\ UNCHANGED <<fsVars, log, cloneInvoked, clones>>
    /\ UNCHANGED <<startVars, inputVars, loopVars, envVars>>

\* subprocess.run(["git", "restore", "."], cwd="gradle", check=True)
Restore ==
    /\ pc = "restore"
    /\ IF ~gradleDir
       THEN /\ Raise("FileNotFoundError")
            /\ log' = log
       ELSE \E rc \in ExitCodes :
            /\ log' = Append(log, Entry("restore", 0, <<".">>, rc))
            /\ IF CheckRaises(rc)
               THEN Raise("CalledProcessError")
               ELSE Goto("checkout")
    /\ UNCHANGED <<fsVars, built, cloneInvoked, clones>>
    /\ UNCHANGED <<startVars, inputVars, loopVars, envVars>>

\* subprocess.run(["git", "checkout", config["tag"]], cwd="gradle", check=True)
Checkout ==
    /\ pc = "checkout"
    /\ \E rc \in ExitCodes :
        /\ log' = Append(log, Entry("checkout", 0, <<config.tag>>, rc))
        /\ IF CheckRaises(rc)
           THEN Raise("CalledProcessError")
           ELSE Goto("patches")
    /\ UNCHANGED <<fsVars, built, cloneInvoked, clones>>
    /\ UNCHANGED <<startVars, inputVars, loopVars, envVars>>

\* one iteration of: for patch in config["patches"]
ApplyPatch ==
    /\ pc = "patches"
    /\ i <= Len(config.patches)
    /\ \E rc \in ExitCodes :
        /\ log' = Append(log, Entry("apply", i, <<PatchArg(config, i)>>, rc))
        /\ result' = Some(rc)
        /\ IF ApplyFailed(rc) THEN Return(1) ELSE Goto("patches")
    /\ i' = i + 1
    /\ j' = j
    /\ UNCHANGED <<fsVars, built, cloneInvoked, clones>>
    /\ UNCHANGED <<startVars, inputVars, envVars>>

\* the patches loop is exhausted
PatchesDone ==
    /\ pc = "patches"
    /\ i > Len(config.patches)
    /\ Goto("cmds")
    /\ UNCHANGED <<fsVars, log, built, cloneInvoked, clones>>
    /\ UNCHANGED <<startVars, inputVars, loopVars, envVars>>

\* one iteration of: for cmd in config["cmds"]
RunCmd ==
    /\ pc = "cmds"
    /\ j <= Len(config.cmds)
    /\ LET args == Split(config.cmds[j]) IN
       IF args = <<>>
       THEN /\ Raise("IndexError")
            /\ UNCHANGED <<log, result, outputFile>>
       ELSE \E rc \in ExitCodes :
            /\ log' = Append(log, Entry("cmd", j, args, rc))
            /\ result' = Some(rc)
            /\ outputFile' \in BOOLEAN
            /\ IF CmdFailed(rc) THEN Return(1) ELSE Goto("cmds")
    /\ j' = j + 1
    /\ i' = i
    /\ UNCHANGED <<gradleDir, distDir, distributions, built, cloneInvoked, clones>>
    /\ UNCHANGED <<startVars, inputVars, envVars>>

\* if result.returncode == 0: ... shutil.copy2(...) ... else: return 1
Collect ==
    /\ pc = "cmds"
    /\ j > Len(config.cmds)
    /\ IF result = Unbound
       THEN /\ Raise("UnboundLocalError")
            /\ UNCHANGED <<log, distributions>>
       ELSE IF result = Some(0)
       THEN IF outputFile /\ distDir
            THEN /\ log' = Append(log, Entry("copy", 0, config.output, 0))
                 /\ distributions' = distributions \cup {Basename(config.output)}
                 /\ Return(0)
            ELSE /\ Raise("FileNotFoundError")
                 /\ UNCHANGED <<log, distributions>>
       ELSE /\ Return(1)
            /\ UNCHANGED <<log, distributions>>
    /\ UNCHANGED <<gradleDir, outputFile, distDir, built, cloneInvoked, clones>>
    /\ UNCHANGED <<startVars, inputVars, loopVars, envVars>>

\* raise SystemExit(main())
MainReturn ==
    /\ pc = "build_returned"
    /\ pc' = "exited"
    /\ exitCode' = MainResult(ret)
    /\ UNCHANGED <<ret, exc>>
    /\ UNCHANGED <<fsVars, log, built, cloneInvoked, clones>>
    /\ UNCHANGED <<startVars, inputVars, loopVars, envVars>>

\* the program is invoked again on the same file system
Rerun ==
    /\ pc \in {"exited", "aborted"}
    /\ runs < MaxRuns
    /\ runs' = runs + 1
    /\ pc' = "start"
    /\ i' = 1
    /\ j' = 1
    /\ result' = Unbound
    /\ ret' = Unbound
    /\ exc' = "none"
    /\ exitCode' = Unbound
    /\ log' = <<>>
    /\ built' = <<>>
    /\ cloneInvoked' = FALSE
    /\ gradleAtStart' = gradleDir
    /\ outputAtStart' = outputFile
    /\ distAtStart' = distributions
    /\ UNCHANGED <<fsVars, clones, patchDirs, config, envVars>>

Next ==
    \/ MainStart
    \/ Clone
    \/ LoadConfig
    \/ Restore
    \/ Checkout
    \/ ApplyPatch
    \/ PatchesDone
    \/ RunCmd
    \/ Collect
    \/ MainReturn
    \/ Rerun

Spec == Init /\ [][Next]_vars

\* ---------------------------------------------------------------- EnvSpec
EnvInit ==
    /\ RunInit
    /\ runs = 1
    /\ gradleDir = FALSE
    /\ outputFile = FALSE
    /\ distDir = FALSE
    /\ distributions = {}
    /\ patchDirs = {}
    /\ config = [tag |-> "v6.1.0", patches |-> <<>>, cmds |-> <<>>,
                 output |-> OutputPath]
    /\ clones = 0
    /\ gradleAtStart = FALSE
    /\ outputAtStart = FALSE
    /\ distAtStart = {}
    /\ environ \in Envs
    /\ patch \in PatchItems
    /\ copied_env = NoEnv
    /\ called = FALSE

\* copied_env = patch_env(patch)
PatchEnvCall ==
    /\ ~called
    /\ called' = TRUE
    /\ LET r == patch_env(environ, patch) IN
        /\ environ' = r.environ
        /\ copied_env' = r.copied_env
    /\ patch' = patch
    /\ UNCHANGED <<pc, runs, gradleDir, outputFile, distDir, distributions,
                   patchDirs, config, i, j, result, ret, exc, exitCode, log,
                   built, cloneInvoked, clones, gradleAtStart, outputAtStart,
                   distAtStart>>

EnvNext == PatchEnvCall

EnvSpec == EnvInit /\ [][EnvNext]_vars

\* ---------------------------------------------------------------- properties
Terminal == {"build_returned", "exited", "aborted"}
Returned == {"build_returned", "exited"}

LogIdx == 1..Len(log)

Ran(op, idx, okOnly) ==
    \E k \in LogIdx : /\ log[k].op = op
                      /\ log[k].idx = idx
                      /\ (okOnly => log[k].rc = 0)

RestoreOk == Ran("restore", 0, TRUE)
CheckoutOk == Ran("checkout", 0, TRUE)
AllPatchesOk == \A k \in 1..Len(config.patches) : Ran("apply", k, TRUE)
AllCmdsOk == \A k \in 1..Len(config.cmds) : Ran("cmd", k, TRUE)
Copied == Ran("copy", 0, FALSE)

\* C1: once a git apply exits nonzero it is the last thing build() does: no
\* later patch, no command and no copy follows it, distributions/ is as it
\* was, and build has returned 1.
C1_PatchFailFast ==
    \A k \in LogIdx :
        (log[k].op = "apply" /\ log[k].rc # 0) =>
            /\ k = Len(log)
            /\ pc \in Returned
            /\ ret = Some(1)
            /\ ~Ran("cmd", 1, FALSE)
            /\ ~Copied
            /\ distributions = distAtStart

C1_Witness ==
    /\ pc = "exited"
    /\ Len(config.patches) = 2
    /\ Len(config.cmds) = 2
    /\ Len(log) = 3
    /\ log[3].op = "apply"
    /\ log[3].idx = 1
    /\ log[3].rc # 0

\* C2: once a build command exits nonzero (all patches having applied) it is
\* the last thing build() does: no later command and no copy follows it,
\* distributions/ is as it was, and build has returned 1.
C2_CmdFailFast ==
    \A k \in LogIdx :
        (log[k].op = "cmd" /\ log[k].rc # 0) =>
            /\ AllPatchesOk
            /\ k = Len(log)
            /\ pc \in Returned
            /\ ret = Some(1)
            /\ ~Copied
            /\ distributions = distAtStart

C2_Witness ==
    /\ pc = "exited"
    /\ Len(config.patches) = 2
    /\ Len(config.cmds) = 2
    /\ Split(config.cmds[2]) # <<>>
    /\ log[Len(log)].op = "cmd"
    /\ log[Len(log)].idx = 1
    /\ log[Len(log)].rc # 0

SortedVersions(S) == SelectSeq(VersionOrder, LAMBDA v : v \in S)

C4_RestoreCheckoutFatal ==
    \A k \in LogIdx :
        (log[k].op \in {"restore", "checkout"} /\ log[k].rc # 0) =>
            /\ k = Len(log)
            /\ pc = "aborted"
            /\ exc = "CalledProcessError"
            /\ ret = Unbound
            /\ exitCode = Unbound
            /\ distributions = distAtStart

C4_Witness ==
    /\ pc = "aborted"
    /\ Len(config.patches) > 0
    /\ Len(config.cmds) > 0
    /\ Len(log) = 2
    /\ log[1].rc = 0
    /\ log[2].op = "checkout"
    /\ log[2].rc # 0

\* C5 as stated, for configurations with at least one patch or command: when
\* restore, checkout, every patch and every command succeeded and the output
\* file is missing, build returns 1 and the run is not aborted.
C5_MissingOutputReturns1 ==
    ( /\ pc \in Terminal
      /\ Len(config.patches) + Len(config.cmds) > 0
      /\ RestoreOk /\ CheckoutOk /\ AllPatchesOk /\ AllCmdsOk
      /\ ~outputFile )
    => (pc # "aborted" /\ ret = Some(1))

\* C6 as stated: at the end of build, the artifact was copied and build
\* returned 0 exactly when restore, checkout, every patch and every command
\* succeeded and the output file exists; and a build that returned 1 left
\* distributions/ unchanged.
C6_CopyIff ==
    pc \in Terminal =>
        /\ (Copied /\ ret = Some(0))
             <=> ( /\ RestoreOk /\ CheckoutOk /\ AllPatchesOk /\ AllCmdsOk
                   /\ outputFile )
        /\ ret = Some(1) => distributions = distAtStart

\* C10 as stated: when restore and checkout succeeded and the output file
\* exists, build ends by returning 0 or 1, and the success decision after
\* the loops finds `result` bound.
C10_AlwaysReturns ==
    /\ (pc \in Terminal /\ RestoreOk /\ CheckoutOk /\ outputFile)
         => (pc # "aborted" /\ ret \in {Some(0), Some(1)})
    /\ (pc = "cmds" /\ j > Len(config.cmds)) => result # Unbound

Keys(items) == {items[k][1] : k \in 1..Len(items)}
ValueOf(items, var) == items[CHOOSE k \in 1..Len(items) : items[k][1] = var][2]

ExpectedEnv(env, items) ==
    [v \in {w \in EnvVars : IF w \in Keys(items)
                            THEN ValueOf(items, w) # None
                            ELSE w \in DOMAIN env}
       |-> IF v \in Keys(items) THEN ValueOf(items, v)[1] ELSE env[v]]

\* C7: a call of patch_env leaves os.environ equal to what it was and returns
\* os.environ with every variable the patch sets overridden and every
\* variable the patch maps to None absent.
C7_PatchEnvPure ==
    [][(~called /\ called') =>
          /\ environ' = environ
          /\ copied_env' = ExpectedEnv(environ, patch)]_vars

C7_Witness ==
    /\ called
    /\ \E a, b \in 1..Len(patch) :
          /\ patch[a] = <<"X", Some("b")>>
          /\ patch[b] = <<"Y", None>>
    /\ DOMAIN environ = {"X", "Y"}
    /\ environ["X"] = "a"
    /\ DOMAIN copied_env = {"X"}
    /\ copied_env["X"] = "b"

\* C8: git clone is invoked only in a run that started without the gradle
\* directory; a run that starts with the directory reaches build() with no
\* clone, no error and the working copy untouched; over all runs at most one
\* clone succeeds.
C8_ProvisionIdempotent ==
    /\ clones <= 1
    /\ clones = 1 => gradleDir
    /\ cloneInvoked => ~gradleAtStart
    /\ (gradleAtStart /\ pc = "load") =>
          /\ ~cloneInvoked
          /\ exc = "none"
          /\ log = <<>>
          /\ gradleDir
          /\ outputFile = outputAtStart

C8_Witness ==
    /\ runs = 2
    /\ clones = 1
    /\ pc = "load"
    /\ ~cloneInvoked

Step(op, arg) == [op |-> op, arg |-> arg]

Canon(cfg) ==
    <<Step("restore", <<".">>), Step("checkout", <<cfg.tag>>)>>
    \o [k \in 1..Len(cfg.patches) |-> Step("apply", <<cfg.patches[k]>>)]
    \o [k \in 1..Len(cfg.cmds) |-> Step("cmd", Split(cfg.cmds[k]))]
    \o <<Step("copy", cfg.output)>>

\* C9: what build() has done so far is always an initial part of: restore,
\* checkout of the tag, the patches in their configured order, the commands
\* in their configured order, the copy; and every step but the last one
\* performed had completed with status 0 before the next began.
C9_FixedOrder ==
    /\ Len(log) <= Len(Canon(config))
    /\ \A k \in LogIdx :
          /\ log[k].op = Canon(config)[k].op
          /\ log[k].arg = Canon(config)[k].arg
          /\ k < Len(log) => log[k].rc = 0

C9_Witness ==
    /\ pc = "exited"
    /\ config.patches = <<"b.patch", "a.patch">>
    /\ Len(config.cmds) = 2
    /\ Split(config.cmds[1]) # Split(config.cmds[2])
    /\ Len(log) = 7
    /\ log[7].op = "copy"

====
